---------------------------- MODULE Spec2Model ----------------------------
(***************************************************************************)
(* NoC topology construction (vpr/src/base/setup_noc.cpp) and the          *)
(* constraint-based NoC router (vpr/src/noc/sat_routing.cpp).              *)
(*                                                                         *)
(* Coordinates of tile centroids and of logical router reference           *)
(* positions are doubles in the source that take half-integer values; the  *)
(* model stores twice the value (an integer).  Distances are compared by   *)
(* their squares: sqrt is monotone and two distinct small integers have    *)
(* square roots further apart than the relative tolerance of vtr::isclose. *)
(***************************************************************************)
EXTENDS Integers, Sequences, FiniteSets, TLC

VARIABLES
    pc,                        \* position inside setup_noc / noc_sat_route
    has_noc,                   \* arch.noc != nullptr
    num_logical,               \* arch.noc->router_list.size()
    device_grid,               \* device_ctx.grid
    list_of_noc_router_tiles,  \* setup_noc local
    logical_idx,               \* number of router_list entries already visited
    logical_router,            \* router_list entry the loop iterator points at
    router_assignments,        \* create_noc_routers local
    noc_routers,               \* noc_model router storage
    noc_links,                 \* noc_model link storage
    noc_built,                 \* noc_model finalized flag
    error,                     \* fatal error raised, or "none"
    err_info,                  \* what the fatal error message names
    noc_ops,                   \* the operations issued on noc_model, in order
    noc_params,                \* link bandwidth, link latency, router latency
    turn_model,                \* noc_ctx.noc_flows_router (a TurnModelRouting)
    traffic_flows,             \* noc_ctx.noc_traffic_flows_storage
    block_locs,                \* place_ctx.block_locs of the router clusters
    bandwidth_resolution,      \* argument of noc_sat_route
    minimize_aggregate_bandwidth, \* argument of noc_sat_route
    traffic_flow_routes,       \* the route each flow holds from an earlier pass
    response,                  \* orsat::CpSolverResponse
    n_solves,                  \* calls of the solver made by noc_sat_route
    decoded,                   \* convert_vars_to_routes was called
    routes,                    \* what noc_sat_route returns
    outcome                    \* how noc_sat_route ended, or "none"

setup_vars == <<pc, has_noc, num_logical, device_grid, list_of_noc_router_tiles,
                logical_idx, logical_router, router_assignments, noc_routers,
                noc_links, noc_built, error, err_info, noc_ops>>

setup_vars_but_pc == <<has_noc, num_logical, device_grid, list_of_noc_router_tiles,
                       logical_idx, logical_router, router_assignments, noc_routers,
                       noc_links, noc_built, error, err_info, noc_ops>>

route_vars == <<noc_params, turn_model, traffic_flows, block_locs,
                bandwidth_resolution, minimize_aggregate_bandwidth,
                traffic_flow_routes, response, n_solves, decoded, routes, outcome>>

vars == <<setup_vars, route_vars>>

-----------------------------------------------------------------------------
(* Bounds of the model *)

GridW == 2
GridH == 2
MaxTileSize == 2
MaxLogical == 3

(* Program constants (setup_noc.h) *)

PHYSICAL_ROUTER_NOT_ASSIGNED == -1
INVALID_PHYSICAL_ROUTER_INDEX == -1

-----------------------------------------------------------------------------
(* The device grid *)

Cells == (0 .. GridW - 1) \X (0 .. GridH - 1)

TileSizes == (1 .. MaxTileSize) \X (1 .. MaxTileSize)

Covers(o, sz, c) ==
    /\ o[1] <= c[1] /\ c[1] < o[1] + sz[1]
    /\ o[2] <= c[2] /\ c[2] < o[2] + sz[2]

\* Origins of router tiles of size sz that fit the grid and do not overlap.
ValidOrigins(sz) ==
    { O \in SUBSET Cells :
        /\ \A o \in O : o[1] + sz[1] <= GridW /\ o[2] + sz[2] <= GridH
        /\ \A o1, o2 \in O : o1 # o2 => ~ \E c \in Cells : Covers(o1, sz, c) /\ Covers(o2, sz, c) }

\* The grid with router tiles of size sz at the origins O; every other cell
\* is a single-cell tile of another type.
GridOf(sz, O) ==
    [ c \in Cells |->
        IF \E o \in O : Covers(o, sz, c)
        THEN LET o == CHOOSE o \in O : Covers(o, sz, c)
             IN [name |-> "noc_router", width_offset |-> c[1] - o[1],
                 height_offset |-> c[2] - o[2], width |-> sz[1], height |-> sz[2]]
        ELSE [name |-> "clb", width_offset |-> 0, height_offset |-> 0,
              width |-> 1, height |-> 1] ]

DeviceGrids == UNION { { GridOf(sz, O) : O \in ValidOrigins(sz) } : sz \in TileSizes }

noc_router_tile_name == "noc_router"

-----------------------------------------------------------------------------
(* identify_and_store_noc_router_tile_positions *)

\* IsRouterTileOrigin without the test of the offsets.
IsRouterTileOrigin_any_cell(cell) == cell.name = noc_router_tile_name

\* The condition of line 121.
IsRouterTileOrigin(cell) ==
    /\ cell.name = noc_router_tile_name
    /\ cell.width_offset = 0
    /\ cell.height_offset = 0

\* Lines 123-126; centroids are stored doubled.
TileEntry(grid, i, j) ==
    [grid_width_position |-> i, grid_height_position |-> j,
     tile_centroid_x |-> (grid[<<i, j>>].width - 1) + 2 * i,
     tile_centroid_y |-> (grid[<<i, j>>].height - 1) + 2 * j]

\* The double loop of lines 107-129, cell k = i * grid_height + j onwards.
RECURSIVE ScanGrid(_, _)
ScanGrid(grid, k) ==
    IF k >= GridW * GridH THEN <<>>
    ELSE LET i == k \div GridH
             j == k % GridH
         IN (IF IsRouterTileOrigin(grid[<<i, j>>]) THEN <<TileEntry(grid, i, j)>> ELSE <<>>)
            \o ScanGrid(grid, k + 1)

identify_and_store_noc_router_tile_positions(grid) == ScanGrid(grid, 0)

-----------------------------------------------------------------------------
(* The architecture description.  The k-th declared router carries a user  *)
(* id that differs from its internal handle; its reference position and    *)
(* its connection list are read when the loops of create_noc_routers and   *)
(* create_noc_links reach it.                                              *)

UserIdOf(k) == 10 * k

\* Reference positions (doubled): every cell centre and every half step.
LogicalPositions == (0 .. 2 * (GridW - 1)) \X (0 .. 2 * (GridH - 1))

\* Connection lists of the k-th declared router: none, itself, or the router
\* declared after it (the first one after the last).
ConnectionLists(k) == { <<>>, <<UserIdOf(k)>>, <<UserIdOf((k % num_logical) + 1)>> }

NoLogicalRouter == [id |-> -1, device_x_position |-> 0, device_y_position |-> 0]

-----------------------------------------------------------------------------
(* create_noc_routers *)

\* Stands for LLONG_MAX (line 215): above every squared distance of the grid.
LLONG_MAX_SQ == 4 * (GridW + MaxTileSize) * (GridW + MaxTileSize)
                + 4 * (GridH + MaxTileSize) * (GridH + MaxTileSize) + 1

\* Line 238, squared and in doubled coordinates.
Dist2(tile, lr) ==
    (tile.tile_centroid_x - lr.device_x_position) * (tile.tile_centroid_x - lr.device_x_position)
    + (tile.tile_centroid_y - lr.device_y_position) * (tile.tile_centroid_y - lr.device_y_position)

\* vtr::isclose on two distances.
IsClose(a, b) == a = b

\* Lines 215-229: the loop state before the first physical tile.
ScanInit ==
    [shortest_distance |-> LLONG_MAX_SQ, closest_physical_router |-> 0,
     error_case_physical_router_index_1 |-> INVALID_PHYSICAL_ROUTER_INDEX,
     error_case_physical_router_index_2 |-> INVALID_PHYSICAL_ROUTER_INDEX]

\* ScanStep without the equal-distance branch: the later of two equally
\* distant tiles silently wins.
ScanStep_no_tie(st, idx, d) ==
    IF d <= st.shortest_distance
    THEN [st EXCEPT !.shortest_distance = d, !.closest_physical_router = idx]
    ELSE st

\* ScanStep with the comparison of line 246 flipped.
ScanStep_flipped(st, idx, d) ==
    IF IsClose(d, st.shortest_distance)
    THEN [st EXCEPT !.error_case_physical_router_index_1 = st.closest_physical_router,
                    !.error_case_physical_router_index_2 = idx]
    ELSE IF d > st.shortest_distance
    THEN [st EXCEPT !.shortest_distance = d, !.closest_physical_router = idx]
    ELSE st

\* Lines 241-251: one physical tile, at index idx with distance d.
ScanStep(st, idx, d) ==
    IF IsClose(d, st.shortest_distance)
    THEN [st EXCEPT !.error_case_physical_router_index_1 = st.closest_physical_router,
                    !.error_case_physical_router_index_2 = idx]
    ELSE IF d < st.shortest_distance
    THEN [st EXCEPT !.shortest_distance = d, !.closest_physical_router = idx]
    ELSE st

\* Lines 232-255: the loop over the physical tiles from index idx on
\* (tile idx of the source is tiles[idx + 1]).
RECURSIVE ScanTiles(_, _, _, _)
ScanTiles(tiles, lr, idx, st) ==
    IF idx >= Len(tiles) THEN st
    ELSE ScanTiles(tiles, lr, idx + 1, ScanStep(st, idx, Dist2(tiles[idx + 1], lr)))

\* TieDetected raised by any tie seen during the scan, also one with a
\* running minimum that a later tile undercut.
TieDetected_any_tie(st) ==
    st.error_case_physical_router_index_1 # INVALID_PHYSICAL_ROUTER_INDEX

\* Line 258.
TieDetected(st) == st.error_case_physical_router_index_1 = st.closest_physical_router

\* AlreadyAssigned with the check dropped.
AlreadyAssigned_never(assignments, closest) == FALSE

\* Line 266.
AlreadyAssigned(assignments, closest) ==
    assignments[closest + 1] # PHYSICAL_ROUTER_NOT_ASSIGNED

\* RecordAssignment writing the tracker at the logical router's own index
\* instead of the physical tile's.
RecordAssignment_wrong_index(assignments, closest, lidx, id) ==
    [assignments EXCEPT ![lidx + 1] = id]

\* Line 278, in the iteration of the logical router with index lidx.
RecordAssignment(assignments, closest, lidx, id) ==
    [assignments EXCEPT ![closest + 1] = id]

TilePos(tiles, idx) ==
    <<tiles[idx + 1].grid_width_position, tiles[idx + 1].grid_height_position>>

-----------------------------------------------------------------------------
(* NocStorage *)

add_router(routers, id, x, y) == Append(routers, [id |-> id, x |-> x, y |-> y])

convert_router_id(routers, id) ==
    CHOOSE h \in 1 .. Len(routers) : routers[h].id = id

add_link(links, src, sink) == Append(links, [source |-> src, sink |-> sink])

NoParams == [link_bandwidth |-> 0, link_latency |-> 0, router_latency |-> 0]

NoResponse == [status |-> "NONE"]

\* arch.noc->link_bandwidth, link_latency and router_latency (lines 68-70).
ArchNocParams == [link_bandwidth |-> 8, link_latency |-> 1, router_latency |-> 1]

\* What the NoC context holds when setup_noc is entered: the finalized
\* model and the properties an earlier setup stored.  (On a default
\* constructed context clear_noc has nothing to remove.)
StoredContexts ==
    { [routers |-> add_router(add_router(<<>>, 1, 0, 0), 2, 1, 0),
       links |-> add_link(<<>>, 1, 2), built |-> TRUE,
       params |-> [link_bandwidth |-> 2, link_latency |-> 3, router_latency |-> 4]] }

-----------------------------------------------------------------------------
(* setup_noc *)

Fail(kind, info) ==
    /\ error' = kind
    /\ err_info' = info
    /\ pc' = "failed"

\* Lines 45-51.
SetupStart ==
    /\ UNCHANGED route_vars
    /\ pc = "start"
    /\ IF ~has_noc
       THEN /\ Fail("no_noc", <<>>)
            /\ UNCHANGED list_of_noc_router_tiles
       ELSE /\ list_of_noc_router_tiles' = identify_and_store_noc_router_tile_positions(device_grid)
            /\ pc' = "validate"
            /\ UNCHANGED <<error, err_info>>
    /\ UNCHANGED <<has_noc, num_logical, device_grid, logical_idx, logical_router,
                   router_assignments, noc_routers, noc_links, noc_built, noc_ops>>

\* ValidateCount run after generate_noc's clear_noc instead of before it.
ValidateCount_after_clear ==
    /\ UNCHANGED route_vars
    /\ pc = "validate"
    /\ LET e == IF Len(list_of_noc_router_tiles) < num_logical THEN "too_few_tiles"
                ELSE IF Len(list_of_noc_router_tiles) > num_logical THEN "too_many_tiles"
                ELSE IF Len(list_of_noc_router_tiles) = 0 THEN "no_tiles"
                ELSE "none"
       IN IF e # "none" THEN Fail(e, <<>>)
          ELSE pc' = "generate" /\ UNCHANGED <<error, err_info>>
    /\ noc_routers' = <<>>
    /\ noc_links' = <<>>
    /\ noc_built' = FALSE
    /\ UNCHANGED <<has_noc, num_logical, device_grid, list_of_noc_router_tiles,
                   logical_idx, logical_router, router_assignments, noc_ops>>

\* Lines 54-62: which fatal error the count check raises, or "none".
CountCheck(n_tiles, n_logical) ==
    IF n_tiles < n_logical THEN "too_few_tiles"
    ELSE IF n_tiles > n_logical THEN "too_many_tiles"
    ELSE IF n_tiles = 0 THEN "no_tiles"
    ELSE "none"

ValidateCount ==
    /\ UNCHANGED route_vars
    /\ pc = "validate"
    /\ LET e == CountCheck(Len(list_of_noc_router_tiles), num_logical)
       IN IF e # "none" THEN Fail(e, <<>>)
          ELSE pc' = "generate" /\ UNCHANGED <<error, err_info>>
    /\ UNCHANGED <<has_noc, num_logical, device_grid, list_of_noc_router_tiles,
                   logical_idx, logical_router, router_assignments, noc_routers,
                   noc_links, noc_built, noc_ops>>

\* generate_noc line 154 and create_noc_routers lines 207-208.
ClearNoc ==
    /\ UNCHANGED route_vars
    /\ pc = "generate"
    /\ noc_routers' = <<>>
    /\ noc_links' = <<>>
    /\ noc_built' = FALSE
    /\ noc_ops' = Append(noc_ops, "clear_noc")
    /\ router_assignments' = [i \in 1 .. Len(list_of_noc_router_tiles) |-> PHYSICAL_ROUTER_NOT_ASSIGNED]
    /\ logical_idx' = 0
    /\ pc' = "routers"
    /\ UNCHANGED <<has_noc, num_logical, device_grid, list_of_noc_router_tiles,
                   logical_router, error, err_info>>

\* One iteration of the loop of lines 213-279.
CreateRouter ==
    /\ UNCHANGED route_vars
    /\ pc = "routers"
    /\ logical_idx < num_logical
    /\ \E pos \in LogicalPositions :
         LET lr == [id |-> UserIdOf(logical_idx + 1),
                    device_x_position |-> pos[1], device_y_position |-> pos[2]]
             tiles == list_of_noc_router_tiles
             st == ScanTiles(tiles, lr, 0, ScanInit)
             closest == st.closest_physical_router
         IN /\ logical_router' = lr
            /\ logical_idx' = logical_idx + 1
            /\ IF TieDetected(st)
               THEN /\ Fail("tie", [id |-> lr.id,
                                    pos1 |-> TilePos(tiles, st.error_case_physical_router_index_1),
                                    pos2 |-> TilePos(tiles, st.error_case_physical_router_index_2)])
                    /\ UNCHANGED <<noc_routers, router_assignments, noc_ops>>
               ELSE IF AlreadyAssigned(router_assignments, closest)
               THEN /\ Fail("duplicate", [id |-> lr.id,
                                          other_id |-> router_assignments[closest + 1],
                                          pos |-> TilePos(tiles, closest)])
                    /\ UNCHANGED <<noc_routers, router_assignments, noc_ops>>
               ELSE /\ noc_routers' = add_router(noc_routers, lr.id,
                                                 tiles[closest + 1].grid_width_position,
                                                 tiles[closest + 1].grid_height_position)
                    /\ router_assignments' = RecordAssignment(router_assignments, closest,
                                                              logical_idx, lr.id)
                    /\ noc_ops' = Append(noc_ops, "add_router")
                    /\ UNCHANGED <<pc, error, err_info>>
    /\ UNCHANGED <<has_noc, num_logical, device_grid, list_of_noc_router_tiles,
                   noc_links, noc_built>>

\* MakeRoomForLinks without the call of line 306.
MakeRoomForLinks_not_called ==
    /\ UNCHANGED route_vars
    /\ pc = "routers"
    /\ logical_idx = num_logical
    /\ pc' = "links"
    /\ logical_idx' = 0
    /\ logical_router' = NoLogicalRouter
    /\ router_assignments' = <<>>
    /\ UNCHANGED <<has_noc, num_logical, device_grid, list_of_noc_router_tiles,
                   noc_routers, noc_links, noc_built, error, err_info, noc_ops>>

\* Return of create_noc_routers (its locals end) and create_noc_links line
\* 306, reached when every logical router is placed.
MakeRoomForLinks ==
    /\ UNCHANGED route_vars
    /\ pc = "routers"
    /\ logical_idx = num_logical
    /\ pc' = "links"
    /\ logical_idx' = 0
    /\ logical_router' = NoLogicalRouter
    /\ router_assignments' = <<>>
    /\ noc_ops' = Append(noc_ops, "make_room_for_outgoing_links")
    /\ UNCHANGED <<has_noc, num_logical, device_grid, list_of_noc_router_tiles,
                   noc_routers, noc_links, noc_built, error, err_info>>

\* Lines 314-321: the links of one router, in connection-list order.
RECURSIVE LinksOf(_, _, _, _, _)
LinksOf(links, routers, src, conns, k) ==
    IF k > Len(conns) THEN links
    ELSE LinksOf(add_link(links, src, convert_router_id(routers, conns[k])),
                 routers, src, conns, k + 1)

\* One iteration of the loop of lines 309-322.
CreateLinks ==
    /\ UNCHANGED route_vars
    /\ pc = "links"
    /\ logical_idx < num_logical
    /\ \E conns \in ConnectionLists(logical_idx + 1) :
         LET source_router == convert_router_id(noc_routers, UserIdOf(logical_idx + 1))
         IN /\ noc_links' = LinksOf(noc_links, noc_routers, source_router, conns, 1)
            /\ noc_ops' = noc_ops \o [k \in 1 .. Len(conns) |-> "add_link"]
    /\ logical_idx' = logical_idx + 1
    /\ UNCHANGED <<pc, has_noc, num_logical, device_grid, list_of_noc_router_tiles,
                   logical_router, router_assignments, noc_routers, noc_built,
                   error, err_info>>

\* generate_noc line 163 and setup_noc lines 68-77.
FinishedBuilding ==
    /\ UNCHANGED <<turn_model, traffic_flows, block_locs, bandwidth_resolution,
                   minimize_aggregate_bandwidth, traffic_flow_routes, response,
                   n_solves, decoded, routes, outcome>>
    /\ pc = "links"
    /\ logical_idx = num_logical
    /\ noc_built' = TRUE
    /\ noc_params' = ArchNocParams
    /\ noc_ops' = Append(noc_ops, "finished_building_noc")
    /\ pc' = "done"
    /\ UNCHANGED <<has_noc, num_logical, device_grid, list_of_noc_router_tiles,
                   logical_idx, logical_router, router_assignments, noc_routers,
                   noc_links, error, err_info>>

SetupInit ==
    /\ pc = "start"
    /\ has_noc \in BOOLEAN
    /\ num_logical \in 0 .. MaxLogical
    /\ device_grid \in DeviceGrids
    /\ list_of_noc_router_tiles = <<>>
    /\ logical_idx = 0
    /\ logical_router = NoLogicalRouter
    /\ router_assignments = <<>>
    /\ \E ctx \in StoredContexts :
          /\ noc_routers = ctx.routers
          /\ noc_links = ctx.links
          /\ noc_built = ctx.built
          /\ noc_params = ctx.params
    /\ error = "none"
    /\ err_info = <<>>
    /\ noc_ops = <<>>
    /\ turn_model = "none"
    /\ traffic_flows = <<>>
    /\ block_locs = <<>>
    /\ bandwidth_resolution = 0
    /\ minimize_aggregate_bandwidth = FALSE
    /\ traffic_flow_routes = <<>>
    /\ response = NoResponse
    /\ n_solves = 0
    /\ decoded = FALSE
    /\ routes = <<>>
    /\ outcome = "none"

SetupNext ==
    \/ SetupStart
    \/ ValidateCount
    \/ ClearNoc
    \/ CreateRouter
    \/ MakeRoomForLinks
    \/ CreateLinks
    \/ FinishedBuilding

SpecSetup == SetupInit /\ [][SetupNext]_vars

-----------------------------------------------------------------------------
(* Properties of setup_noc *)

Tiles == list_of_noc_router_tiles

TileIdx == 1 .. Len(Tiles)

RouterProcessed == logical_router # NoLogicalRouter

MinDist2(lr, I) ==
    CHOOSE m \in { Dist2(Tiles[i], lr) : i \in I } :
        \A i \in I : m <= Dist2(Tiles[i], lr)

\* The tiles of I nearest to lr.
Nearest(lr, I) == { i \in I : Dist2(Tiles[i], lr) = MinDist2(lr, I) }

\* The tiles taken by a logical router declared before lr.
AssignedBefore(lr) ==
    { i \in TileIdx : router_assignments[i] \notin {PHYSICAL_ROUTER_NOT_ASSIGNED, lr.id} }

PosOfTile(i) == <<Tiles[i].grid_width_position, Tiles[i].grid_height_position>>

RouterCreatedAt(id, pos) ==
    \E h \in 1 .. Len(noc_routers) :
        noc_routers[h].id = id /\ <<noc_routers[h].x, noc_routers[h].y>> = pos

RouterCreated(id) == \E h \in 1 .. Len(noc_routers) : noc_routers[h].id = id

DistinctRouterPositions ==
    \A a, b \in 1 .. Len(noc_routers) :
        a # b => <<noc_routers[a].x, noc_routers[a].y>> # <<noc_routers[b].x, noc_routers[b].y>>

\* C1: after a successful setup_noc the model holds as many routers as
\* logical routers were declared (one per discovered tile), and no two of
\* them share a grid coordinate.
C1_RoutersBijective ==
    pc = "done" =>
        /\ Len(noc_routers) = num_logical
        /\ Len(noc_routers) = Len(Tiles)
        /\ DistinctRouterPositions
        /\ \A i \in TileIdx : \E h \in 1 .. Len(noc_routers) :
               <<noc_routers[h].x, noc_routers[h].y>> = PosOfTile(i)

C1_Witness == pc = "done" /\ Len(noc_routers) = MaxLogical

\* C2: after a successful setup_noc every link has distinct endpoints that
\* share the x or the y coordinate, whatever adjacency was declared.
C2_LinksAxisAligned ==
    pc = "done" =>
        \A k \in 1 .. Len(noc_links) :
            LET s == noc_routers[noc_links[k].source]
                t == noc_routers[noc_links[k].sink]
            IN /\ noc_links[k].source # noc_links[k].sink
               /\ (s.x = t.x \/ s.y = t.y)

CountChecked == has_noc /\ pc \notin {"start", "validate"}

\* C3: setup succeeds only with as many tiles as logical routers, and zero
\* tiles, too few tiles and too many tiles each raise their own error.
C3_CountErrorsDistinct ==
    CountChecked =>
        /\ (pc = "done" => Len(Tiles) = num_logical)
        /\ (Len(Tiles) = 0 => error = "no_tiles")
        /\ (0 < Len(Tiles) /\ Len(Tiles) < num_logical => error = "too_few_tiles")
        /\ (Len(Tiles) > num_logical => error = "too_many_tiles")

\* C4: two distinct tiles at equal minimal distance from the logical router
\* just visited make setup fail with the tie error, which names the router
\* and two distinct nearest tiles, and no router is created for it.
C4_TieIsError ==
    (RouterProcessed /\ Cardinality(Nearest(logical_router, TileIdx)) >= 2) =>
        /\ error = "tie"
        /\ err_info.id = logical_router.id
        /\ err_info.pos1 # err_info.pos2
        /\ \E i, j \in Nearest(logical_router, TileIdx) :
               err_info.pos1 = PosOfTile(i) /\ err_info.pos2 = PosOfTile(j)
        /\ ~ RouterCreated(logical_router.id)

\* A tie behind a farther tile that is scanned first, after an earlier
\* logical router was placed.
C4_Witness ==
    /\ error = "tie"
    /\ Len(noc_routers) >= 1
    /\ 1 \notin Nearest(logical_router, TileIdx)

\* C5: when the tile chosen for the logical router just visited belongs to
\* an earlier logical router, setup fails with the duplicate-assignment
\* error naming both ids and the tile, no router is added; and the model
\* never holds two routers at one tile.
C5_DuplicateIsError ==
    /\ DistinctRouterPositions
    /\ (RouterProcessed /\ Cardinality(Nearest(logical_router, TileIdx)) = 1
          /\ Nearest(logical_router, TileIdx) \subseteq AssignedBefore(logical_router))
       => error = "duplicate"
    /\ error = "duplicate" =>
          /\ err_info.id = logical_router.id
          /\ err_info.other_id # logical_router.id
          /\ RouterCreatedAt(err_info.other_id, err_info.pos)
          /\ \E i \in Nearest(logical_router, TileIdx) : err_info.pos = PosOfTile(i)
          /\ ~ RouterCreated(logical_router.id)

C5_Witness == error = "duplicate" /\ Len(noc_routers) >= 2

\* The outcome of the visit of lr when the candidates are the tiles I.
OutcomeOver(lr, I) ==
    IF Cardinality(Nearest(lr, I)) >= 2 THEN error = "tie"
    ELSE \E i \in Nearest(lr, I) : RouterCreatedAt(lr.id, PosOfTile(i))

\* C6 as stated: the candidates of the logical router just visited are the
\* tiles no earlier logical router took; the nearest of those is selected.
C6_CandidatesUnassigned ==
    RouterProcessed => OutcomeOver(logical_router, TileIdx \ AssignedBefore(logical_router))

\* C6 amended: the minimum and the tie check range over every tile, taken or
\* not; a unique nearest tile is selected when it is free and raises the
\* duplicate-assignment error when it is taken.
C6_CandidatesAll ==
    RouterProcessed =>
        IF Nearest(logical_router, TileIdx) \cap AssignedBefore(logical_router) # {}
           /\ Cardinality(Nearest(logical_router, TileIdx)) = 1
        THEN error = "duplicate" /\ ~ RouterCreated(logical_router.id)
        ELSE OutcomeOver(logical_router, TileIdx)

\* A router placed on its nearest tile while a farther tile is taken.
C6_Witness ==
    /\ RouterProcessed
    /\ error = "none"
    /\ AssignedBefore(logical_router) # {}
    /\ RouterCreated(logical_router.id)

\* The entries of the tile list recorded at grid position c.
EntriesAt(c) ==
    { k \in TileIdx : Tiles[k].grid_width_position = c[1] /\ Tiles[k].grid_height_position = c[2] }

\* C16: once the grid is scanned, a cell is recorded if and only if it is a
\* router-tile cell with both offsets zero, and is recorded once; so every
\* cell of a router tile belongs to exactly one entry, that of its origin,
\* and cells of other tiles to none.
C16_TilesRecordedOnce ==
    has_noc /\ pc # "start" =>
        /\ \A c \in Cells :
             Cardinality(EntriesAt(c)) =
                 (IF /\ device_grid[c].name = "noc_router"
                     /\ device_grid[c].width_offset = 0
                     /\ device_grid[c].height_offset = 0
                  THEN 1 ELSE 0)
        /\ \A c \in Cells :
             device_grid[c].name = "noc_router" =>
                 Cardinality(EntriesAt(<<c[1] - device_grid[c].width_offset,
                                         c[2] - device_grid[c].height_offset>>)) = 1

\* A grid with a router tile that spans several cells and a cell of another
\* type has been scanned.
C16_Witness ==
    /\ pc = "validate"
    /\ Len(Tiles) >= 1
    /\ \E c \in Cells : device_grid[c].name = "noc_router" /\ device_grid[c].width_offset > 0
    /\ \E c \in Cells : device_grid[c].name # "noc_router"

\* The positions of noc_ops that hold operation op.
OpsAt(op) == { k \in DOMAIN noc_ops : noc_ops[k] = op }

\* Every op1 is issued before every op2.
AllBefore(op1, op2) == \A i \in OpsAt(op1), j \in OpsAt(op2) : i < j

\* C20: within one setup_noc run the operations on the model come in the
\* order clear_noc, every add_router, make_room_for_outgoing_links, every
\* add_link, finished_building_noc: nothing follows the finalization, and no
\* add_link comes before all routers exist and the pre-sizing is done.
C20_OperationOrder ==
    /\ noc_ops # <<>> => OpsAt("clear_noc") = {1}
    /\ Cardinality(OpsAt("make_room_for_outgoing_links")) <= 1
    /\ Cardinality(OpsAt("finished_building_noc")) <= 1
    /\ AllBefore("add_router", "make_room_for_outgoing_links")
    /\ AllBefore("add_router", "add_link")
    /\ AllBefore("make_room_for_outgoing_links", "add_link")
    /\ OpsAt("finished_building_noc") \subseteq {Len(noc_ops)}
    /\ OpsAt("add_link") \cup OpsAt("finished_building_noc") # {} =>
          /\ Cardinality(OpsAt("add_router")) = num_logical
          /\ Cardinality(OpsAt("make_room_for_outgoing_links")) = 1
    /\ noc_ops # <<>> =>
          /\ Cardinality(OpsAt("add_router")) = Len(noc_routers)
          /\ Cardinality(OpsAt("add_link")) = Len(noc_links)
          /\ noc_built <=> OpsAt("finished_building_noc") # {}

C20_Witness ==
    /\ pc = "done"
    /\ Cardinality(OpsAt("add_router")) = MaxLogical
    /\ Cardinality(OpsAt("add_link")) >= 2
    /\ noc_ops[Len(noc_ops)] = "finished_building_noc"

CountErrors == {"too_few_tiles", "too_many_tiles", "no_tiles"}

StoredModel == <<noc_routers, noc_links, noc_built>>

CountPhaseKeepsContext ==
    (pc \in {"start", "validate"}) => UNCHANGED <<StoredModel, noc_params>>

\* C26: a step of setup_noc up to and including the count validation leaves
\* the stored model (routers, links, finalized flag) and the stored link
\* bandwidth, link latency and router latency as they were, so a count
\* failure ends with them unchanged; a tie or duplicate failure comes after
\* clear_noc and leaves a model that holds fewer routers than declared, no
\* link, and is not finalized.
C26_CountFailureLeavesModel ==
    /\ [][CountPhaseKeepsContext]_vars
    /\ [](error \in CountErrors => pc = "failed" /\ noc_ops = <<>>)
    /\ [](error \in {"tie", "duplicate"} =>
            /\ \E k \in 1 .. Len(noc_ops) : noc_ops[k] = "clear_noc"
            /\ Len(noc_routers) < num_logical
            /\ \A h \in 1 .. Len(noc_routers) : noc_routers[h].id \in {UserIdOf(k) : k \in 1 .. num_logical}
            /\ noc_links = <<>>
            /\ ~ noc_built)

\* A count failure with the model of an earlier setup still in place.
C26_Witness ==
    /\ error \in CountErrors
    /\ noc_built
    /\ Len(noc_routers) = 2
    /\ Len(noc_links) = 1
    /\ noc_params.link_bandwidth = 2

\* C25: when exactly one tile attains the minimal distance to the logical
\* router just visited, the tie error is not raised for it, whatever ties
\* occurred among farther tiles earlier in the scan.
C25_NoFalseTie ==
    (RouterProcessed /\ Cardinality(Nearest(logical_router, TileIdx)) = 1) =>
        error # "tie"

\* Tile j tied with the running minimum when it was scanned, and a tile
\* scanned later is the only nearest one.
C25_Witness ==
    /\ RouterProcessed
    /\ error # "tie"
    /\ Cardinality(Nearest(logical_router, TileIdx)) = 1
    /\ \E j \in TileIdx :
          /\ j > 1
          /\ j \notin Nearest(logical_router, TileIdx)
          /\ j \in Nearest(logical_router, 1 .. j)
          /\ Cardinality(Nearest(logical_router, 1 .. j)) >= 2

-----------------------------------------------------------------------------
(* Inputs of noc_sat_route: a built NoC model, the placement of the router *)
(* clusters, the routing strategy and the registered traffic flows.        *)

MaxFlows == 2

\* Latencies are in hundredths of a second: the 0.1 of lines 443 and 466.
LATENCY_THRESHOLD == 10

\* operations_research::Domain latency_overrun_domain(0, 20), line 435.
LATENCY_OVERRUN_MAX == 20

\* Weights of the objective, lines 867 and 877.
LATENCY_OVERRUN_WEIGHT == 1024
CONGESTED_LINK_WEIGHT == 16384

Router(id, x, y) == [id |-> id, x |-> x, y |-> y]

Link(src, sink) == [source |-> src, sink |-> sink]

\* A 2 x 2 mesh with links in both directions, router tiles two cells apart.
MeshTopology ==
    [routers |-> <<Router(10, 0, 0), Router(20, 2, 0), Router(30, 2, 2), Router(40, 0, 2)>>,
     links |-> <<Link(1, 2), Link(2, 1), Link(2, 3), Link(3, 2),
                 Link(3, 4), Link(4, 3), Link(4, 1), Link(1, 4)>>]

\* A one-directional ring around a 2 x 2 square.
RingSquareTopology ==
    [routers |-> <<Router(10, 0, 0), Router(20, 1, 0), Router(30, 1, 1), Router(40, 0, 1)>>,
     links |-> <<Link(1, 2), Link(2, 3), Link(3, 4), Link(4, 1)>>]

\* A one-directional ring along one row: the last link wraps around.
RingRowTopology ==
    [routers |-> <<Router(10, 0, 0), Router(20, 1, 0), Router(30, 2, 0), Router(40, 3, 0)>>,
     links |-> <<Link(1, 2), Link(2, 3), Link(3, 4), Link(4, 1)>>]

\* Three routers on the corners of a triangle: the declared adjacency joins
\* the first and the third router, which share neither row nor column.
DiagonalTopology ==
    [routers |-> <<Router(10, 0, 0), Router(20, 2, 0), Router(30, 2, 2)>>,
     links |-> <<Link(1, 2), Link(2, 3), Link(1, 3), Link(3, 1)>>]

Topologies == {MeshTopology, RingSquareTopology, RingRowTopology, DiagonalTopology}

TurnModels == {"xy", "west_first"}

\* The router clusters of the netlist; cluster c sits on the c-th router.
RouterClusters == 1 .. 3

PlacementOf(topo) ==
    [c \in RouterClusters |-> [x |-> topo.routers[c].x, y |-> topo.routers[c].y]]

\* Bandwidth and maximum latency of a flow: two unconstrained flows and one
\* whose latency bound allows a single link.
FlowProfiles == {<<4, 100>>, <<6, 100>>, <<4, 3>>}

\* The source and sink clusters of a traffic flow.
FlowEnds == { <<1, 2>>, <<1, 3>>, <<2, 1>> }

FlowChoices ==
    { [source_router_cluster_id |-> ends[1], sink_router_cluster_id |-> ends[2],
       traffic_flow_bandwidth |-> prof[1], max_traffic_flow_latency |-> prof[2]] :
      ends \in FlowEnds,
      prof \in FlowProfiles }

FlowLists == UNION { [1 .. n -> FlowChoices] : n \in 0 .. MaxFlows }

-----------------------------------------------------------------------------
(* NocStorage queries *)

RouterIds == 1 .. Len(noc_routers)

LinkIds == 1 .. Len(noc_links)

FlowIds == 1 .. Len(traffic_flows)

get_router_at_grid_location(loc) ==
    CHOOSE r \in RouterIds : noc_routers[r].x = loc.x /\ noc_routers[r].y = loc.y

get_noc_router_outgoing_links(r) == { l \in LinkIds : noc_links[l].source = r }

get_noc_router_incoming_links(r) == { l \in LinkIds : noc_links[l].sink = r }

\* Lines 215-220 and 285-290.
SourceRouter(f) ==
    get_router_at_grid_location(block_locs[traffic_flows[f].source_router_cluster_id])

SinkRouter(f) ==
    get_router_at_grid_location(block_locs[traffic_flows[f].sink_router_cluster_id])

\* get_compressed_loc: the rank of a coordinate among the coordinates that
\* hold a router tile.
CompressedX(x) == Cardinality({ noc_routers[r].x : r \in RouterIds } \cap (0 .. x - 1))

CompressedY(y) == Cardinality({ noc_routers[r].y : r \in RouterIds } \cap (0 .. y - 1))

-----------------------------------------------------------------------------
(* TurnModelRouting::get_all_illegal_turns *)

\* Whether going r1 -> r2 -> r3 is a legal turn of the routing strategy.
is_turn_legal(r1, r2, r3) ==
    LET a == noc_routers[r1]
        b == noc_routers[r2]
        c == noc_routers[r3]
    IN /\ ~ (a.x = c.x /\ a.y = c.y)                         \* no way back
       /\ turn_model = "xy" => ~ (a.x = b.x /\ b.x # c.x)     \* no Y to X
       /\ turn_model = "west_first" => ~ (a.x = b.x /\ c.x < b.x)  \* no turn to west

get_all_illegal_turns ==
    { <<l1, l2>> \in LinkIds \X LinkIds :
        /\ noc_links[l1].sink = noc_links[l2].source
        /\ ~ is_turn_legal(noc_links[l1].source, noc_links[l1].sink, noc_links[l2].sink) }

-----------------------------------------------------------------------------
(* The constraints of noc_sat_route.  Every constraint but the congestion  *)
(* one reads the flow_link variables of a single flow: S below is the set  *)
(* of links l whose variable flow_link_vars[{f, l}] is true.               *)

\* Line 150.
rescale_traffic_flow_bandwidths(f) ==
    (traffic_flows[f].traffic_flow_bandwidth * bandwidth_resolution)
        \div noc_params.link_bandwidth

\* LinkDirection with the test of line 348 inverted.
LinkDirection_inverted(src_loc, dst_loc) ==
    IF src_loc.x = dst_loc.x
    THEN (IF dst_loc.y > src_loc.y THEN "up" ELSE "down")
    ELSE (IF dst_loc.x < src_loc.x THEN "right" ELSE "left")

\* Lines 341-353.
LinkDirection(src_loc, dst_loc) ==
    IF src_loc.x = dst_loc.x
    THEN (IF dst_loc.y > src_loc.y THEN "up" ELSE "down")
    ELSE (IF dst_loc.x > src_loc.x THEN "right" ELSE "left")

\* AxisAligned with the assertion of line 339 compiled out.
AxisAligned_always(l) == TRUE

\* Line 339.
AxisAligned(l) ==
    \/ noc_routers[noc_links[l].source].x = noc_routers[noc_links[l].sink].x
    \/ noc_routers[noc_links[l].source].y = noc_routers[noc_links[l].sink].y

\* group_noc_links_based_on_direction: one of the four buckets.
LinksGoing(dir) ==
    { l \in LinkIds :
        LinkDirection(noc_routers[noc_links[l].source], noc_routers[noc_links[l].sink]) = dir }

\* group_noc_links_based_on_direction: the four buckets, or the failure of
\* the assertion of line 339 on the first link that is not axis-aligned.
group_noc_links_based_on_direction ==
    IF \E l \in LinkIds : ~ AxisAligned(l)
    THEN [kind |-> "assert_failed"]
    ELSE [kind |-> "ok", up |-> LinksGoing("up"), down |-> LinksGoing("down"),
          right |-> LinksGoing("right"), left |-> LinksGoing("left")]

\* AddExactlyOne and AddAtMostOne over the variables of the links in ls.
ExactlyOne(ls, S) == Cardinality(ls \cap S) = 1

AtMostOne(ls, S) == Cardinality(ls \cap S) <= 1

\* add_continuity_constraints, one flow.
ContinuityConstraints(f, S) ==
    /\ ExactlyOne(get_noc_router_outgoing_links(SourceRouter(f)), S)
    /\ ExactlyOne(get_noc_router_incoming_links(SinkRouter(f)), S)
    /\ \A r \in RouterIds \ {SourceRouter(f), SinkRouter(f)} :
          /\ AtMostOne(get_noc_router_incoming_links(r), S)
          /\ AtMostOne(get_noc_router_outgoing_links(r), S)
          /\ Cardinality(get_noc_router_incoming_links(r) \cap S)
               = Cardinality(get_noc_router_outgoing_links(r) \cap S)

\* Lines 301-306.
DeltaX(f) == CompressedX(noc_routers[SinkRouter(f)].x) - CompressedX(noc_routers[SourceRouter(f)].x)

DeltaY(f) == CompressedY(noc_routers[SinkRouter(f)].y) - CompressedY(noc_routers[SourceRouter(f)].y)

\* add_distance_constraints, one flow.
DistanceConstraints(f, S) ==
    /\ Cardinality(LinksGoing("right") \cap S) - Cardinality(LinksGoing("left") \cap S) = DeltaX(f)
    /\ Cardinality(LinksGoing("up") \cap S) - Cardinality(LinksGoing("down") \cap S) = DeltaY(f)

\* TurnClause with the second literal not negated.
TurnClause_second_plain(first_var, second_var) == ~ first_var \/ second_var

\* Line 132: AddBoolOr({first_var.Not(), second_var.Not()}).
TurnClause(first_var, second_var) == ~ first_var \/ ~ second_var

\* forbid_illegal_turns, one flow; illegal_turns is the list of line 121.
IllegalTurnConstraints(illegal_turns, S) ==
    \A turn \in illegal_turns : TurnClause(turn[1] \in S, turn[2] \in S)

\* HasOverrunVar giving every flow a latency overrun variable.
HasOverrunVar_always(f) == TRUE

\* Line 443.
HasOverrunVar(f) == traffic_flows[f].max_traffic_flow_latency < LATENCY_THRESHOLD

\* comp_max_number_of_traversed_links, the assertion of line 466.
LatencyBoundAsserted(f) == traffic_flows[f].max_traffic_flow_latency < LATENCY_THRESHOLD

\* comp_max_number_of_traversed_links, line 468.
comp_max_number_of_traversed_links(f) ==
    (traffic_flows[f].max_traffic_flow_latency - noc_params.router_latency)
        \div (noc_params.link_latency + noc_params.router_latency)

\* MaxEquality taking the smaller of the two expressions.
MaxEquality_min(target, a, b) == target = (IF a <= b THEN a ELSE b)

\* Line 494: AddMaxEquality(latency_overrun_var, {latency_overrun_expr, 0}).
MaxEquality(target, a, b) == target = (IF a >= b THEN a ELSE b)

\* constrain_latency_overrun_vars, one flow with an overrun variable.
OverrunConstraint(f, S, overrun_var) ==
    MaxEquality(overrun_var, Cardinality(S) - comp_max_number_of_traversed_links(f), 0)

\* The overrun domain without its upper end.
latency_overrun_domain_wide == 0 .. (4 * LATENCY_OVERRUN_MAX)

\* Line 435.
latency_overrun_domain == 0 .. LATENCY_OVERRUN_MAX

\* The link sets of flow f that meet every constraint on its variables.
FlowLinkChoices(f) ==
    LET illegal_turns == get_all_illegal_turns
    IN { S \in SUBSET LinkIds :
        /\ ContinuityConstraints(f, S)
        /\ IllegalTurnConstraints(illegal_turns, S)
        /\ DistanceConstraints(f, S)
        /\ HasOverrunVar(f) => \E v \in latency_overrun_domain : OverrunConstraint(f, S, v) }

RECURSIVE FlowLinkAssignments(_)
FlowLinkAssignments(n) ==
    IF n = 0 THEN {<<>>}
    ELSE { Append(fl, S) : fl \in FlowLinkAssignments(n - 1), S \in FlowLinkChoices(n) }

\* Lines 193-196: the demand-weighted sum of the variables of link l.
RECURSIVE LinkDemand(_, _, _)
LinkDemand(fl, l, n) ==
    IF n = 0 THEN 0
    ELSE LinkDemand(fl, l, n - 1)
         + (IF l \in fl[n] THEN rescale_traffic_flow_bandwidths(n) ELSE 0)

\* CongestionReified with AddGreaterOrEqual in place of AddGreaterThan.
CongestionReified_or_equal(congested, lhs) ==
    /\ ~ congested => lhs <= bandwidth_resolution
    /\ congested => lhs >= bandwidth_resolution

\* Lines 199-200.
CongestionReified(congested, lhs) ==
    /\ ~ congested => lhs <= bandwidth_resolution
    /\ congested => lhs > bandwidth_resolution

CongestedChoices(fl) ==
    { C \in SUBSET LinkIds :
        \A l \in LinkIds : CongestionReified(l \in C, LinkDemand(fl, l, Len(fl))) }

OverrunFlows == { f \in FlowIds : HasOverrunVar(f) }

OverrunChoices(fl) ==
    { ov \in [OverrunFlows -> latency_overrun_domain] :
        \A f \in OverrunFlows : OverrunConstraint(f, fl[f], ov[f]) }

\* Lines 856-860: the (flow, link) variables hinted true, given the routes
\* the flows hold.
Hints(prev_routes) ==
    UNION { { <<f, prev_routes[f][k]>> : k \in 1 .. Len(prev_routes[f]) } :
            f \in 1 .. Len(prev_routes) }

\* AddHint taken as fixing the variable to the hinted value.
AddHint_fixes_value(value, hinted) == value = hinted

\* Line 858: cp_model.AddHint(var, true) adds no constraint on var.
AddHint(value, hinted) == TRUE

HintsAccepted(hints, fl) == \A h \in hints : AddHint(h[2] \in fl[h[1]], TRUE)

\* Every assignment of the variables that satisfies the model built when
\* the flows hold prev_routes.
SolutionsGiven(prev_routes) ==
    LET hints == Hints(prev_routes)
    IN UNION { { [flow_link |-> fl, congested |-> C, overrun |-> ov] :
                 C \in CongestedChoices(fl), ov \in OverrunChoices(fl) } :
               fl \in { a \in FlowLinkAssignments(Len(traffic_flows)) :
                          HintsAccepted(hints, a) } }

Solutions == SolutionsGiven(traffic_flow_routes)

RECURSIVE SumOver(_, _)
SumOver(F(_), I) ==
    IF I = {} THEN 0
    ELSE LET i == CHOOSE i \in I : TRUE IN F(i) + SumOver(F, I \ {i})

\* Objective without congested_link_sum in the sum of line 879.
Objective_congestion_dropped(sol) ==
    LET Overrun(f) == sol.overrun[f]
        Usage(f) == rescale_traffic_flow_bandwidths(f) * Cardinality(sol.flow_link[f])
    IN LATENCY_OVERRUN_WEIGHT * SumOver(Overrun, OverrunFlows)
       + SumOver(Usage, FlowIds)

\* Objective with the factors of lines 867 and 877 exchanged.
Objective_weights_swapped(sol) ==
    LET Overrun(f) == sol.overrun[f]
        Usage(f) == rescale_traffic_flow_bandwidths(f) * Cardinality(sol.flow_link[f])
    IN CONGESTED_LINK_WEIGHT * SumOver(Overrun, OverrunFlows)
       + SumOver(Usage, FlowIds)
       + LATENCY_OVERRUN_WEIGHT * Cardinality(sol.congested)

\* Lines 862-879.
Objective(sol) ==
    LET Overrun(f) == sol.overrun[f]
        Usage(f) == rescale_traffic_flow_bandwidths(f) * Cardinality(sol.flow_link[f])
    IN LATENCY_OVERRUN_WEIGHT * SumOver(Overrun, OverrunFlows)
       + SumOver(Usage, FlowIds)
       + CONGESTED_LINK_WEIGHT * Cardinality(sol.congested)

OptimalAmong(sols) == { sol \in sols : \A other \in sols : Objective(sol) <= Objective(other) }

-----------------------------------------------------------------------------
(* noc_sat_route up to the return of SolveCpModel (lines 813-890).  The    *)
(* solver answers with a status and, when the status is FEASIBLE or        *)
(* OPTIMAL, an assignment that satisfies the model.                        *)

SolveFeasible(sols) ==
    \E sol \in sols : response' = [status |-> "FEASIBLE", solution |-> sol]

SolveOptimal(sols) ==
    \E sol \in OptimalAmong(sols) : response' = [status |-> "OPTIMAL", solution |-> sol]

SolveInfeasible(sols) ==
    /\ sols = {}
    /\ response' = [status |-> "INFEASIBLE"]

SolveUnknown == response' = [status |-> "UNKNOWN"]

\* The assertions met while the model is built: line 466, for every flow
\* constrain_latency_overrun_vars visits, and line 339.
BuildAssertionsHold ==
    /\ \A f \in OverrunFlows : LatencyBoundAsserted(f)
    /\ group_noc_links_based_on_direction.kind = "ok"

\* The rescaled bandwidth summed over the activated (flow, link) pairs:
\* agg_bw_expr of lines 869-874.
AggregateBandwidth(sol) ==
    LET Usage(f) == rescale_traffic_flow_bandwidths(f) * Cardinality(sol.flow_link[f])
    IN SumOver(Usage, FlowIds)

\* BuildAndSolve with lines 909-910 live when minimize_aggregate_bandwidth
\* is set: after an accepted solve the model is solved again with the
\* aggregate bandwidth as its only objective.
BuildAndSolve_second_solve ==
    /\ pc = "route"
    /\ BuildAssertionsHold
    /\ LET sols == Solutions
       IN IF minimize_aggregate_bandwidth /\ sols # {}
          THEN /\ \E sol \in { s \in sols : \A t \in sols :
                                    AggregateBandwidth(s) <= AggregateBandwidth(t) } :
                     response' = [status |-> "OPTIMAL", solution |-> sol]
               /\ n_solves' = n_solves + 2
          ELSE /\ \/ SolveFeasible(sols)
                  \/ SolveOptimal(sols)
                  \/ SolveInfeasible(sols)
                  \/ SolveUnknown
               /\ n_solves' = n_solves + 1
    /\ pc' = "solved"
    /\ UNCHANGED <<setup_vars_but_pc, noc_params, turn_model, traffic_flows, block_locs,
                   bandwidth_resolution, minimize_aggregate_bandwidth,
                   traffic_flow_routes, decoded, routes, outcome>>

BuildAndSolve ==
    /\ pc = "route"
    /\ IF BuildAssertionsHold
       THEN /\ LET sols == Solutions
               IN \/ SolveFeasible(sols)
                  \/ SolveOptimal(sols)
                  \/ SolveInfeasible(sols)
                  \/ SolveUnknown
            /\ n_solves' = n_solves + 1
            /\ pc' = "solved"
            /\ UNCHANGED outcome
       ELSE /\ outcome' = "assert_failed"
            /\ pc' = "returned"
            /\ UNCHANGED <<response, n_solves>>
    /\ UNCHANGED <<setup_vars_but_pc, noc_params, turn_model, traffic_flows, block_locs,
                   bandwidth_resolution, minimize_aggregate_bandwidth,
                   traffic_flow_routes, decoded, routes>>

-----------------------------------------------------------------------------
(* Decoding the solution: convert_vars_to_routes and                       *)
(* sort_noc_links_in_chain_order.                                          *)

\* The orders in which the links of S can be presented.
Orders(S) ==
    { o \in [1 .. Cardinality(S) -> S] : \A i, j \in DOMAIN o : i # j => o[i] # o[j] }

\* Lines 366-373: the last link of each source router wins.
SrcMap(links) ==
    [r \in { noc_links[links[k]].source : k \in DOMAIN links } |->
        links[CHOOSE k \in DOMAIN links :
                /\ noc_links[links[k]].source = r
                /\ \A m \in DOMAIN links : noc_links[links[m]].source = r => m <= k]]

IsDst(links) == { noc_links[links[k]].sink : k \in DOMAIN links }

\* StartPositions looking for a link whose sink is no link's source.
StartPositions_sink_free(links) ==
    { k \in DOMAIN links :
        noc_links[links[k]].sink \notin { noc_links[links[m]].source : m \in DOMAIN links } }

\* Lines 376-382: the positions the search can stop at before links.end().
StartPositions(links) ==
    { k \in DOMAIN links : noc_links[links[k]].source \notin IsDst(links) }

\* Lines 386-394; a link met twice means the loop never ends.
RECURSIVE Chain(_, _, _)
Chain(src_map, current, route) ==
    IF \E k \in DOMAIN route : route[k] = current
    THEN [kind |-> "no_return"]
    ELSE LET dst_router_id == noc_links[current].sink
         IN IF dst_router_id \notin DOMAIN src_map
            THEN [kind |-> "route", route |-> Append(route, current)]
            ELSE Chain(src_map, src_map[dst_router_id], Append(route, current))

\* Line 396.
SizeChecked(links, chain) ==
    IF chain.kind = "route" /\ Len(chain.route) # Len(links)
    THEN [kind |-> "assert_failed"]
    ELSE chain

Min(S) == CHOOSE k \in S : \A m \in S : k <= m

\* The outcomes of sort_noc_links_in_chain_order(links).  When no link
\* starts the chain, line 385 reads links.end(): the call crashes or goes
\* on with whatever link id it read.
sort_noc_links_in_chain_order(links) ==
    IF Len(links) = 0 THEN { [kind |-> "route", route |-> <<>>] }
    ELSE IF StartPositions(links) # {}
    THEN { SizeChecked(links, Chain(SrcMap(links), links[Min(StartPositions(links))], <<>>)) }
    ELSE { [kind |-> "crash"] }
         \cup { SizeChecked(links, Chain(SrcMap(links), l, <<>>)) : l \in LinkIds }

\* Lines 412-422 for flow f: flow_link_vars is an unordered map, so the
\* activated links of f reach the sort in any order.
DecodeOutcomes(f) ==
    UNION { sort_noc_links_in_chain_order(o) : o \in Orders(response.solution.flow_link[f]) }

\* StatusAccepted without FEASIBLE.
StatusAccepted_only_optimal(status) == status = "OPTIMAL"

\* Lines 892-893.
StatusAccepted(status) == status \in {"FEASIBLE", "OPTIMAL"}

\* Lines 896-897: convert_vars_to_routes, then return the routes.  The
\* flows are decoded in turn; the first one that does not yield a route
\* ends the call.
Decode ==
    /\ pc = "solved"
    /\ StatusAccepted(response.status)
    /\ decoded' = TRUE
    /\ \E res \in [FlowIds -> UNION { DecodeOutcomes(f) : f \in FlowIds }] :
         /\ \A f \in FlowIds : res[f] \in DecodeOutcomes(f)
         /\ LET failed == { f \in FlowIds : res[f].kind # "route" }
            IN IF failed = {}
               THEN /\ routes' = [f \in FlowIds |-> res[f].route]
                    /\ outcome' = "returned"
               ELSE /\ routes' = <<>>
                    /\ outcome' = res[Min(failed)].kind
    /\ pc' = "returned"
    /\ UNCHANGED <<setup_vars_but_pc, noc_params, turn_model, traffic_flows, block_locs,
                   bandwidth_resolution, minimize_aggregate_bandwidth,
                   traffic_flow_routes, response, n_solves>>

\* Line 920.
ReturnEmpty ==
    /\ pc = "solved"
    /\ ~ StatusAccepted(response.status)
    /\ routes' = <<>>
    /\ outcome' = "returned"
    /\ pc' = "returned"
    /\ UNCHANGED <<setup_vars_but_pc, noc_params, turn_model, traffic_flows, block_locs,
                   bandwidth_resolution, minimize_aggregate_bandwidth,
                   traffic_flow_routes, response, n_solves, decoded>>

\* The operations setup_noc issued to build a NoC of the given size.
BuiltOps(n_routers, n_links) ==
    <<"clear_noc">> \o [k \in 1 .. n_routers |-> "add_router"]
        \o <<"make_room_for_outgoing_links">> \o [k \in 1 .. n_links |-> "add_link"]
        \o <<"finished_building_noc">>

\* What every routing pass starts from, whatever its inputs.
RouteEntry ==
    /\ pc = "route"
    /\ has_noc = TRUE
    /\ noc_built = TRUE
    /\ device_grid = <<>>
    /\ list_of_noc_router_tiles = <<>>
    /\ logical_idx = 0
    /\ logical_router = NoLogicalRouter
    /\ router_assignments = <<>>
    /\ error = "none"
    /\ err_info = <<>>
    /\ noc_params = [link_bandwidth |-> 8, link_latency |-> 1, router_latency |-> 1]
    /\ response = NoResponse
    /\ n_solves = 0
    /\ decoded = FALSE
    /\ routes = <<>>
    /\ outcome = "none"

\* The NoC model setup_noc built for topo and the placement on it.
BuiltNoc(topo) ==
    /\ noc_routers = topo.routers
    /\ noc_links = topo.links
    /\ block_locs = PlacementOf(topo)
    /\ num_logical = Len(topo.routers)
    /\ noc_ops = BuiltOps(Len(topo.routers), Len(topo.links))

BandwidthResolution == 4

\* A first routing pass: no flow holds a route yet.
RouteInit ==
    /\ RouteEntry
    /\ \E topo \in Topologies : BuiltNoc(topo)
    /\ turn_model \in TurnModels
    /\ traffic_flows \in FlowLists
    /\ traffic_flow_routes = [f \in FlowIds |-> <<>>]
    /\ bandwidth_resolution = BandwidthResolution
    /\ minimize_aggregate_bandwidth = FALSE

RouteNext ==
    \/ BuildAndSolve
    \/ Decode
    \/ ReturnEmpty

SpecRoute == RouteInit /\ [][RouteNext]_vars

-----------------------------------------------------------------------------
(* A later routing pass on the mesh: two flows, of which some hold a route *)
(* from an earlier pass, and a resolution chosen by the caller.            *)

FineBandwidthResolution == 16384

BandwidthResolutions == {BandwidthResolution, FineBandwidthResolution}

\* Bandwidth and maximum latency of a flow: just under half of the link
\* bandwidth, and three quarters of it without and with a latency bound.
RerouteProfiles == {<<3, 100>>, <<6, 100>>, <<6, 3>>}

RerouteEnds == { <<1, 2>>, <<1, 3>> }

RerouteFlows ==
    { [source_router_cluster_id |-> ends[1], sink_router_cluster_id |-> ends[2],
       traffic_flow_bandwidth |-> prof[1], max_traffic_flow_latency |-> prof[2]] :
      ends \in RerouteEnds,
      prof \in RerouteProfiles }

\* The routes the two flows hold: none, the first flow the route through the
\* second router, or both flows the route through the fourth router.
PreviousRoutes == { << <<>>, <<>> >>, << <<1, 3>>, <<>> >>, << <<8, 6>>, <<8, 6>> >> }

RerouteInit ==
    /\ RouteEntry
    /\ BuiltNoc(MeshTopology)
    /\ turn_model \in TurnModels
    /\ traffic_flows \in [1 .. 2 -> RerouteFlows]
    /\ traffic_flow_routes \in PreviousRoutes
    /\ bandwidth_resolution \in BandwidthResolutions
    /\ minimize_aggregate_bandwidth \in BOOLEAN

SpecReroute == RerouteInit /\ [][RouteNext]_vars

-----------------------------------------------------------------------------
(* convert_vars_to_routes on its own: a single flow and a response of the  *)
(* solver that sets any few of the flow's link variables.                  *)

MaxActivated == 3

ActivatedSets == { S \in SUBSET LinkIds : Cardinality(S) <= MaxActivated }

DecodeResponses ==
    { [status |-> st,
       solution |-> [flow_link |-> << S >>, congested |-> {}, overrun |-> <<>>]] :
      st \in {"FEASIBLE", "OPTIMAL"}, S \in ActivatedSets }

DecodeFlows == { fl \in FlowChoices : fl.traffic_flow_bandwidth = 4
                                      /\ fl.max_traffic_flow_latency = 100 }

DecodeInit ==
    /\ pc = "solved"
    /\ has_noc = TRUE
    /\ noc_built = TRUE
    /\ device_grid = <<>>
    /\ list_of_noc_router_tiles = <<>>
    /\ logical_idx = 0
    /\ logical_router = NoLogicalRouter
    /\ router_assignments = <<>>
    /\ error = "none"
    /\ err_info = <<>>
    /\ noc_params = ArchNocParams
    /\ \E topo \in Topologies : BuiltNoc(topo)
    /\ turn_model = "xy"
    /\ traffic_flows \in [1 .. 1 -> DecodeFlows]
    /\ traffic_flow_routes = << <<>> >>
    /\ bandwidth_resolution = BandwidthResolution
    /\ minimize_aggregate_bandwidth = FALSE
    /\ response \in DecodeResponses
    /\ n_solves = 0
    /\ decoded = FALSE
    /\ routes = <<>>
    /\ outcome = "none"

SpecDecode == DecodeInit /\ [][Decode]_vars

-----------------------------------------------------------------------------
(* The model noc_sat_route builds, evaluated on one assignment of the link *)
(* variables of a single flow, on a ring long enough for a route to exceed *)
(* the overrun domain.                                                     *)

LongRingSize == 21

\* The routers of the ring lie in one row; the router clusters sit on the
\* routers at x = 0, x = LongRingSize - 2 and x = LongRingSize - 1.
LongRingX(i) ==
    IF i = 1 THEN 0
    ELSE IF i = 2 THEN LongRingSize - 2
    ELSE IF i = 3 THEN LongRingSize - 1
    ELSE i - 3

LongRingRouterAt(x) == CHOOSE i \in 1 .. LongRingSize : LongRingX(i) = x

\* Link k leaves the router at x = k - 1 for the next one; the last link
\* wraps around to x = 0.
LongRingTopology ==
    [routers |-> [i \in 1 .. LongRingSize |-> Router(10 * i, LongRingX(i), 0)],
     links |-> [k \in 1 .. LongRingSize |->
                  Link(LongRingRouterAt(k - 1), LongRingRouterAt(k % LongRingSize))]]

\* The assignments examined: the links first, first + 1, ... taken around
\* the ring.
Arc(first, n_links) ==
    { ((first + j - 1) % LongRingSize) + 1 : j \in 0 .. n_links - 1 }

Arcs == { Arc(first, n_links) : first \in 0 .. LongRingSize - 1, n_links \in 0 .. LongRingSize }

\* No latency bound, a bound that allows one link, a bound of zero.
AssignmentProfiles == {<<4, 100>>, <<4, 3>>, <<4, 0>>}

AssignmentFlows ==
    { [source_router_cluster_id |-> ends[1], sink_router_cluster_id |-> ends[2],
       traffic_flow_bandwidth |-> prof[1], max_traffic_flow_latency |-> prof[2]] :
      ends \in FlowEnds,
      prof \in AssignmentProfiles }

\* The assignment under examination is kept in response, with no status.
AssignmentInit ==
    /\ pc = "assignment"
    /\ has_noc = TRUE
    /\ noc_built = TRUE
    /\ device_grid = <<>>
    /\ list_of_noc_router_tiles = <<>>
    /\ logical_idx = 0
    /\ logical_router = NoLogicalRouter
    /\ router_assignments = <<>>
    /\ error = "none"
    /\ err_info = <<>>
    /\ noc_params = ArchNocParams
    /\ BuiltNoc(LongRingTopology)
    /\ turn_model = "xy"
    /\ traffic_flows \in [1 .. 1 -> AssignmentFlows]
    /\ traffic_flow_routes = << <<>> >>
    /\ bandwidth_resolution = BandwidthResolution
    /\ minimize_aggregate_bandwidth = FALSE
    /\ \E S \in Arcs :
          response = [status |-> "UNDECIDED",
                      solution |-> [flow_link |-> << S >>, congested |-> {}, overrun |-> <<>>]]
    /\ n_solves = 0
    /\ decoded = FALSE
    /\ routes = <<>>
    /\ outcome = "none"

\* Whether the assignment meets every constraint of lines 837-851 on the
\* variables of the flow: some value of the overrun variable must go with it.
CheckAssignment ==
    /\ pc = "assignment"
    /\ BuildAssertionsHold
    /\ outcome' = IF response.solution.flow_link[1] \in FlowLinkChoices(1)
                  THEN "satisfies" ELSE "violates"
    /\ pc' = "checked"
    /\ UNCHANGED <<setup_vars_but_pc, noc_params, turn_model, traffic_flows, block_locs,
                   bandwidth_resolution, minimize_aggregate_bandwidth,
                   traffic_flow_routes, response, n_solves, decoded, routes>>

SpecAssignment == AssignmentInit /\ [][CheckAssignment]_vars

-----------------------------------------------------------------------------
(* Properties of the solutions of the model built by noc_sat_route.        *)

Solved == pc = "solved" /\ response.status \in {"FEASIBLE", "OPTIMAL"}

\* The links whose flow_link variable of flow f is true in the solution.
Activated(f) == response.solution.flow_link[f]

\* Following the links of S from router r reaches sink without entering a
\* router twice and uses up S.
RECURSIVE SimplePathFrom(_, _, _, _)
SimplePathFrom(S, r, sink, visited) ==
    IF r = sink THEN S = {}
    ELSE LET out == { l \in S : noc_links[l].source = r }
         IN /\ Cardinality(out) = 1
            /\ LET next_router == noc_links[CHOOSE l \in out : TRUE].sink
               IN /\ next_router \notin visited
                  /\ SimplePathFrom(S \ out, next_router, sink, visited \cup {next_router})

\* C7: in every solution the activated links of every flow form one simple
\* directed path from the flow's source router to its sink router that uses
\* every activated link.
C7_SimplePath ==
    Solved => \A f \in FlowIds :
        SimplePathFrom(Activated(f), SourceRouter(f), SinkRouter(f), {SourceRouter(f)})

\* The step of link l in the coordinates given by the maps cx and cy.
StepX(cx(_), l) == cx(noc_routers[noc_links[l].sink].x) - cx(noc_routers[noc_links[l].source].x)

StepY(cy(_), l) == cy(noc_routers[noc_links[l].sink].y) - cy(noc_routers[noc_links[l].source].y)

\* Activated right-links minus left-links and up-links minus down-links equal
\* the sink-minus-source deltas, directions and deltas both in the
\* coordinates given by cx and cy.
DistanceHolds(cx(_), cy(_), f) ==
    /\ Cardinality({ l \in Activated(f) : StepX(cx, l) > 0 })
         - Cardinality({ l \in Activated(f) : StepX(cx, l) < 0 })
       = cx(noc_routers[SinkRouter(f)].x) - cx(noc_routers[SourceRouter(f)].x)
    /\ Cardinality({ l \in Activated(f) : StepY(cy, l) > 0 })
         - Cardinality({ l \in Activated(f) : StepY(cy, l) < 0 })
       = cy(noc_routers[SinkRouter(f)].y) - cy(noc_routers[SourceRouter(f)].y)

PhysicalCoordinate(c) == c

\* C8 as stated: in every solution, for every flow, the right-minus-left and
\* up-minus-down counts equal the x and y deltas, directions and deltas both
\* taken in the physical grid coordinates of the routers.
C8_DistancePhysical ==
    Solved => \A f \in FlowIds : DistanceHolds(PhysicalCoordinate, PhysicalCoordinate, f)

\* C8 amended: in every solution, for every flow, the right-minus-left and
\* up-minus-down counts equal the x and y deltas, directions and deltas both
\* taken in the compressed grid coordinates of the routers.
C8_DistanceCompressed ==
    Solved => \A f \in FlowIds : DistanceHolds(CompressedX, CompressedY, f)

C8_Witness ==
    /\ Solved
    /\ \E f \in FlowIds :
         /\ Activated(f) # {}
         /\ noc_routers[SinkRouter(f)].x - noc_routers[SourceRouter(f)].x
              # CompressedX(noc_routers[SinkRouter(f)].x) - CompressedX(noc_routers[SourceRouter(f)].x)

\* C9: in every solution no flow has both links of an illegal turn of the
\* routing strategy activated.
C9_NoIllegalTurn ==
    Solved => \A f \in FlowIds : \A turn \in get_all_illegal_turns :
        ~ (turn[1] \in Activated(f) /\ turn[2] \in Activated(f))

C9_Witness ==
    /\ Solved
    /\ \E f \in FlowIds : \E turn \in get_all_illegal_turns :
         turn[1] \in Activated(f) /\ Cardinality(Activated(f)) > 1

\* The summed rescaled bandwidth of the flows routed through link l.
DemandOn(l) ==
    LET Share(f) == IF l \in Activated(f) THEN rescale_traffic_flow_bandwidths(f) ELSE 0
    IN SumOver(Share, FlowIds)

\* C10: in every solution a link is congested if and only if the summed
\* rescaled bandwidth of the flows routed through it is strictly greater than
\* bandwidth_resolution.
C10_CongestedIffOverCapacity ==
    Solved => \A l \in LinkIds :
        (l \in response.solution.congested) <=> (DemandOn(l) > bandwidth_resolution)

C10_Witness ==
    /\ Solved
    /\ \E l \in LinkIds :
         /\ l \in response.solution.congested
         /\ \A f \in FlowIds : l \in Activated(f)
         /\ Len(traffic_flows) > 1

-----------------------------------------------------------------------------
(* Properties of decoding and of the result of noc_sat_route.              *)

\* C11: for the activated-link set of every flow of every accepted solution,
\* sort_noc_links_in_chain_order yields one and the same ordered route in
\* whatever order the links are presented.
C11_DecodeOrderIndependent ==
    Solved => \A f \in FlowIds :
        /\ Cardinality(DecodeOutcomes(f)) = 1
        /\ \A d \in DecodeOutcomes(f) : d.kind = "route"

\* Four routers joined as the directed ring 1 -> 2 -> 3 -> 4 -> 1 and a single
\* flow from the first to the third router with no latency bound.
RingScenario ==
    /\ noc_links = <<Link(1, 2), Link(2, 3), Link(3, 4), Link(4, 1)>>
    /\ Len(traffic_flows) = 1
    /\ SourceRouter(1) = 1
    /\ SinkRouter(1) = 3
    /\ ~ HasOverrunVar(1)

\* C13: in the ring scenario the model is feasible, every accepted solution
\* activates exactly the links 1 -> 2 and 2 -> 3, and the route returned is
\* these two links in that order.
C13_RingRoute ==
    RingScenario =>
        /\ pc = "solved" => response.status # "INFEASIBLE"
        /\ Solved => Activated(1) = {1, 2}
        /\ pc = "returned" /\ decoded => outcome = "returned" /\ routes = << <<1, 2>> >>

\* The links of S, taken in some order, lead from router to router without
\* entering a router twice.
IsSimpleDirectedPath(S) ==
    /\ S # {}
    /\ \E o \in Orders(S) :
          /\ \A k \in 1 .. Len(o) - 1 : noc_links[o[k]].sink = noc_links[o[k + 1]].source
          /\ Cardinality({noc_links[o[1]].source} \cup { noc_links[o[k]].sink : k \in DOMAIN o })
               = Len(o) + 1

\* C21: for a link set that forms one simple directed path, whatever the
\* order of presentation, sort_noc_links_in_chain_order returns every link
\* exactly once, first the link whose source is no link's sink, and then
\* each link leaving the router the previous one enters; for the empty set
\* it returns the empty route.
C21_ChainOrder ==
    pc = "returned" =>
        /\ Activated(1) = {} => outcome = "returned" /\ routes[1] = <<>>
        /\ IsSimpleDirectedPath(Activated(1)) =>
              /\ outcome = "returned"
              /\ Len(routes[1]) = Cardinality(Activated(1))
              /\ { routes[1][k] : k \in DOMAIN routes[1] } = Activated(1)
              /\ noc_links[routes[1][1]].source \notin { noc_links[l].sink : l \in Activated(1) }
              /\ \A k \in 1 .. Len(routes[1]) - 1 :
                    noc_links[routes[1][k]].sink = noc_links[routes[1][k + 1]].source

\* A path of MaxActivated links whose route is not in the order of the link ids.
C21_Witness ==
    /\ pc = "returned"
    /\ IsSimpleDirectedPath(Activated(1))
    /\ Cardinality(Activated(1)) = MaxActivated
    /\ outcome = "returned"
    /\ routes[1][1] > routes[1][2]

\* C22: for every accepted solution and every flow, in whatever order the
\* activated links are presented, a starting link exists (one whose source
\* is no activated link's sink) and the reconstructed route has as many
\* links as were activated, so the decoder's assertion does not fail.
C22_DecoderAssertionHolds ==
    Solved => \A f \in FlowIds : \A o \in Orders(Activated(f)) :
        /\ StartPositions(o) # {}
        /\ \A d \in sort_noc_links_in_chain_order(o) :
              d.kind = "route" /\ Len(d.route) = Len(o)

\* C24: when every link is axis-aligned, the four buckets hold every link
\* exactly once: equal x puts a link in up when the sink's y is greater and
\* in down otherwise, different x puts it in right when the sink's x is
\* greater and in left otherwise.  A link whose ends differ in both x and y
\* fails the assertion: no buckets are produced and noc_sat_route ends
\* there, before the solver is called.
C24_DirectionBuckets ==
    LET g == group_noc_links_based_on_direction
        src(l) == noc_routers[noc_links[l].source]
        dst(l) == noc_routers[noc_links[l].sink]
        diagonal == { l \in LinkIds : src(l).x # dst(l).x /\ src(l).y # dst(l).y }
    IN pc \in {"route", "solved", "returned"} =>
         /\ diagonal = {} =>
               /\ g.kind = "ok"
               /\ g.up = { l \in LinkIds : src(l).x = dst(l).x /\ dst(l).y > src(l).y }
               /\ g.down = { l \in LinkIds : src(l).x = dst(l).x /\ dst(l).y <= src(l).y }
               /\ g.right = { l \in LinkIds : src(l).x # dst(l).x /\ dst(l).x > src(l).x }
               /\ g.left = { l \in LinkIds : src(l).x # dst(l).x /\ dst(l).x <= src(l).x }
               /\ g.up \cup g.down \cup g.right \cup g.left = LinkIds
               /\ Cardinality(g.up) + Cardinality(g.down) + Cardinality(g.right)
                    + Cardinality(g.left) = Len(noc_links)
         /\ diagonal # {} =>
               /\ g.kind = "assert_failed"
               /\ pc # "solved"
               /\ pc = "returned" => outcome = "assert_failed" /\ response = NoResponse

\* noc_sat_route stopped by the assertion on a NoC with a diagonal link.
C24_Witness ==
    /\ pc = "returned"
    /\ outcome = "assert_failed"
    /\ \E l \in LinkIds :
          /\ noc_routers[noc_links[l].source].x # noc_routers[noc_links[l].sink].x
          /\ noc_routers[noc_links[l].source].y # noc_routers[noc_links[l].sink].y

\* C23: a flow has a latency overrun variable exactly when its maximum
\* latency is below 0.1; the assertion of comp_max_number_of_traversed_links
\* holds for every flow it is called on, so the model is built whenever
\* all links are axis-aligned; and a flow with a larger bound has no overrun
\* value in the solution, so it adds nothing to the latency term.
C23_OverrunVarIffBounded ==
    /\ (pc = "returned" /\ response = NoResponse) =>
          \E l \in LinkIds :
             /\ noc_routers[noc_links[l].source].x # noc_routers[noc_links[l].sink].x
             /\ noc_routers[noc_links[l].source].y # noc_routers[noc_links[l].sink].y
    /\ Solved =>
          /\ DOMAIN response.solution.overrun
               = { f \in FlowIds : traffic_flows[f].max_traffic_flow_latency < LATENCY_THRESHOLD }
          /\ \A f \in DOMAIN response.solution.overrun :
                response.solution.overrun[f] \in 0 .. LATENCY_OVERRUN_MAX

\* A solution of two flows of which only the second has an overrun variable.
C23_Witness ==
    /\ Solved
    /\ Len(traffic_flows) = 2
    /\ traffic_flows[1].max_traffic_flow_latency >= LATENCY_THRESHOLD
    /\ DOMAIN response.solution.overrun = {2}

\* C27: for every activated-link set that satisfies the continuity
\* constraints of the flow, sort_noc_links_in_chain_order terminates: its
\* loop reaches a router with no outgoing link of the set and never meets a
\* link for the second time.
C27_ChainTerminates ==
    (pc = "returned" /\ ContinuityConstraints(1, Activated(1))) =>
        outcome # "no_return"

\* C12: when noc_sat_route has returned, the decoder has run if and only if
\* the solver status is FEASIBLE or OPTIMAL; for every other status the result
\* is empty and no assertion or error was raised.
C12_DecodeOnlyAccepted ==
    (pc = "returned" /\ response # NoResponse) =>
        /\ decoded <=> response.status \in {"FEASIBLE", "OPTIMAL"}
        /\ response.status \notin {"FEASIBLE", "OPTIMAL"} =>
              routes = <<>> /\ outcome = "returned"

C12_Witness ==
    /\ pc = "returned"
    /\ response.status = "INFEASIBLE"
    /\ ~ decoded
    /\ routes = <<>>
    /\ traffic_flows # <<>>

\* The largest number of links flow f can traverse within its latency bound.
MaxPermissibleLinks(f) ==
    CHOOSE n \in -1 .. LATENCY_THRESHOLD :
        LET per_link == noc_params.link_latency + noc_params.router_latency
            budget == traffic_flows[f].max_traffic_flow_latency - noc_params.router_latency
        IN n * per_link <= budget /\ budget < (n + 1) * per_link

\* C15: in every accepted solution the overrun of a flow that has an overrun
\* variable is 0 when the flow activates at most its maximum permissible
\* number of links N, and k when it activates N + k links.
C15_OverrunIsExcess ==
    Solved => \A f \in FlowIds :
        traffic_flows[f].max_traffic_flow_latency < LATENCY_THRESHOLD =>
            LET excess == Cardinality(Activated(f)) - MaxPermissibleLinks(f)
            IN /\ excess <= 0 => response.solution.overrun[f] = 0
               /\ excess >= 1 => response.solution.overrun[f] = excess

C15_Witness ==
    /\ Solved
    /\ \E f, g \in OverrunFlows :
         /\ Cardinality(Activated(f)) = MaxPermissibleLinks(f)
         /\ response.solution.overrun[f] = 0
         /\ Cardinality(Activated(g)) > MaxPermissibleLinks(g)
         /\ response.solution.overrun[g] = Cardinality(Activated(g)) - MaxPermissibleLinks(g)

Abs(n) == IF n < 0 THEN -n ELSE n

\* C19: in every accepted solution no flow activates both a right-link and a
\* left-link, nor both an up-link and a down-link, and the number of links
\* it activates is |delta x| + |delta y|.
C19_RoutesMonotone ==
    Solved => \A f \in FlowIds :
        /\ ~ (Activated(f) \cap LinksGoing("right") # {} /\ Activated(f) \cap LinksGoing("left") # {})
        /\ ~ (Activated(f) \cap LinksGoing("up") # {} /\ Activated(f) \cap LinksGoing("down") # {})
        /\ Cardinality(Activated(f)) = Abs(DeltaX(f)) + Abs(DeltaY(f))

-----------------------------------------------------------------------------
(* Properties of hints and of the objective.                               *)

NoPreviousRoutes == [f \in FlowIds |-> <<>>]

\* C17: the routes the flows hold are hints only: the model built with them
\* has the same solutions and the same optimal solutions as the model built
\* with no previous route, and what the solver returns is a solution of the
\* latter.
C17_HintsNotBinding ==
    /\ pc = "route" =>
          /\ SolutionsGiven(traffic_flow_routes) = SolutionsGiven(NoPreviousRoutes)
          /\ OptimalAmong(SolutionsGiven(traffic_flow_routes))
               = OptimalAmong(SolutionsGiven(NoPreviousRoutes))
    /\ Solved => response.solution \in SolutionsGiven(NoPreviousRoutes)

\* A flow holds a route and the accepted solution leaves a hinted link out.
C17_Witness ==
    /\ Solved
    /\ \E h \in Hints(traffic_flow_routes) : h[2] \notin Activated(h[1])

Optimal == pc = "solved" /\ response.status = "OPTIMAL"

CongestedCount(sol) == Cardinality(sol.congested)

TotalOverrun(sol) ==
    LET Overrun(f) == sol.overrun[f]
    IN SumOver(Overrun, { f \in FlowIds : traffic_flows[f].max_traffic_flow_latency < LATENCY_THRESHOLD })

TotalBandwidth(sol) ==
    LET Usage(f) == rescale_traffic_flow_bandwidths(f) * Cardinality(sol.flow_link[f])
    IN SumOver(Usage, FlowIds)

WeightedSum(sol) ==
    16384 * CongestedCount(sol) + 1024 * TotalOverrun(sol) + TotalBandwidth(sol)

\* The constraints on the link variables of flow f other than the one that
\* ties them to the overrun variable.
OtherConstraintsHold(f, S) ==
    /\ ContinuityConstraints(f, S)
    /\ IllegalTurnConstraints(get_all_illegal_turns, S)
    /\ DistanceConstraints(f, S)

\* C29: for a flow with an overrun variable and maximum permissible link
\* count N, an assignment that meets the model activates at most N + 20
\* links, and an assignment that meets every other constraint but activates
\* more than N + 20 links does not meet the model; for a flow without an
\* overrun variable the other constraints decide alone.
C29_OverrunDomainIsHardLimit ==
    pc = "checked" =>
        LET S == Activated(1)
            bounded == traffic_flows[1].max_traffic_flow_latency < LATENCY_THRESHOLD
            limit == MaxPermissibleLinks(1) + 20
        IN /\ (bounded /\ outcome = "satisfies") => Cardinality(S) <= limit
           /\ (bounded /\ Cardinality(S) > limit) => outcome = "violates"
           /\ (bounded /\ Cardinality(S) <= limit /\ OtherConstraintsHold(1, S))
                 => outcome = "satisfies"
           /\ ~ bounded => (outcome = "satisfies" <=> OtherConstraintsHold(1, S))

\* A route that meets every other constraint and is one link too long.
C29_Witness ==
    /\ pc = "checked"
    /\ outcome = "violates"
    /\ traffic_flows[1].max_traffic_flow_latency < LATENCY_THRESHOLD
    /\ OtherConstraintsHold(1, Activated(1))
    /\ Cardinality(Activated(1)) = MaxPermissibleLinks(1) + 21

\* C30: when noc_sat_route is over and the solver's status was FEASIBLE or
\* OPTIMAL, it has returned one route per registered flow, each of at least
\* one link; so with at least one flow the result is empty exactly when the
\* status was not accepted, and with no flow it is empty in both cases.
C30_OneRoutePerFlow ==
    (pc = "returned" /\ response # NoResponse) =>
        /\ StatusAccepted(response.status) =>
              /\ outcome = "returned"
              /\ Len(routes) = Len(traffic_flows)
              /\ \A f \in FlowIds : Len(routes[f]) >= 1
        /\ traffic_flows # <<>> => (routes = <<>> <=> ~ StatusAccepted(response.status))
        /\ traffic_flows = <<>> => routes = <<>>

\* C28: whatever the value of minimize_aggregate_bandwidth, noc_sat_route
\* calls the solver exactly once on a model it managed to build, and an
\* OPTIMAL answer minimises the one objective of line 879 (congestion,
\* overrun and bandwidth terms together), never the bandwidth alone.
C28_FlagHasNoEffect ==
    /\ pc \in {"solved", "returned"} =>
          n_solves = (IF response = NoResponse THEN 0 ELSE 1)
    /\ pc = "route" => n_solves = 0
    /\ Optimal => \A t \in Solutions :
          WeightedSum(response.solution) <= WeightedSum(t)

\* The flag is set and the optimal answer is not one of least aggregate
\* bandwidth.
C28_Witness ==
    /\ Optimal
    /\ minimize_aggregate_bandwidth
    /\ n_solves = 1
    /\ \E t \in Solutions : TotalBandwidth(t) < TotalBandwidth(response.solution)

\* C18 as stated: every optimal solution has the smallest number of congested
\* links of any feasible solution, and among the feasible solutions with that
\* number the smallest total overrun.
C18_CongestionDominates ==
    Optimal => \A t \in Solutions :
        /\ CongestedCount(response.solution) <= CongestedCount(t)
        /\ CongestedCount(response.solution) = CongestedCount(t) =>
              TotalOverrun(response.solution) <= TotalOverrun(t)

\* C18 amended: every optimal solution minimises 16384 * congested links +
\* 1024 * total overrun + total rescaled bandwidth; it has no more congested
\* links than a feasible solution whose overrun and bandwidth terms exceed its
\* own by less than 16384, and no more overrun than a feasible solution with
\* as many congested links whose bandwidth term exceeds its own by less than
\* 1024.
C18_WeightedSumMinimal ==
    Optimal => \A t \in Solutions :
        LET s == response.solution
        IN /\ WeightedSum(s) <= WeightedSum(t)
           /\ (1024 * TotalOverrun(t) + TotalBandwidth(t))
                - (1024 * TotalOverrun(s) + TotalBandwidth(s)) < 16384
                 => CongestedCount(s) <= CongestedCount(t)
           /\ CongestedCount(s) = CongestedCount(t) /\ TotalBandwidth(t) - TotalBandwidth(s) < 1024
                 => TotalOverrun(s) <= TotalOverrun(t)

\* An optimal solution that keeps a congested link although a feasible
\* solution has none.
C18_Witness ==
    /\ Optimal
    /\ CongestedCount(response.solution) > 0
    /\ \E t \in Solutions : CongestedCount(t) = 0

\* Two flows with two alternative routes of equal link count, of which one
\* choice shares a link between the flows and another does not.
SharedLinkScenario ==
    /\ Len(traffic_flows) = 2
    /\ \A f \in FlowIds : \A S, T \in FlowLinkChoices(f) : Cardinality(S) = Cardinality(T)
    /\ \E S \in FlowLinkChoices(1), T \in FlowLinkChoices(2) : S \cap T = {}
    /\ \E S \in FlowLinkChoices(1), T \in FlowLinkChoices(2) : S \cap T # {}

\* The largest bandwidth below half of the link bandwidth.
JustUnderHalf(f) ==
    /\ 2 * traffic_flows[f].traffic_flow_bandwidth < noc_params.link_bandwidth
    /\ 2 * (traffic_flows[f].traffic_flow_bandwidth + 1) >= noc_params.link_bandwidth

\* C14 as stated: with two flows that each demand just under half of the link
\* bandwidth, no optimal solution routes both flows through a shared link.
C14_NoSharingUnderHalf ==
    Optimal /\ SharedLinkScenario /\ (\A f \in FlowIds : JustUnderHalf(f))
        => Activated(1) \cap Activated(2) = {}

\* Each flow alone fits a link, the two together do not.
TogetherOverCapacity ==
    /\ \A f \in FlowIds : rescale_traffic_flow_bandwidths(f) <= bandwidth_resolution
    /\ rescale_traffic_flow_bandwidths(1) + rescale_traffic_flow_bandwidths(2) > bandwidth_resolution

\* C14 amended: with two flows whose rescaled bandwidths each fit a link but
\* together exceed bandwidth_resolution, no optimal solution routes both
\* flows through a shared link.
C14_NoSharingOverCapacity ==
    Optimal /\ SharedLinkScenario /\ TogetherOverCapacity
        => Activated(1) \cap Activated(2) = {}

C14_Witness ==
    /\ Optimal
    /\ SharedLinkScenario
    /\ TogetherOverCapacity
    /\ Activated(1) # {}
    /\ Activated(2) # {}
    /\ Activated(1) \cap Activated(2) = {}

=============================================================================
